---------------------------- MODULE Spec2Model ----------------------------
(***************************************************************************)
(* Model of Additive_Auto_Encoder_Pytorch_Base_1: the training loop        *)
(* train_sffn (mini-batch iteration, best-loss tracking, iteration cap,    *)
(* tolerance exit) and the sweep over hidden sizes around it.              *)
(*                                                                         *)
(* Abstractions.                                                           *)
(*  - A loss value is a natural number; the value produced by one          *)
(*    mini-batch step (mse_loss(out, x_batch).item()) is an input of the   *)
(*    step, drawn from a small set. float('inf') is the value Inf.         *)
(*  - The parameter tensor W is identified by the number of in-place       *)
(*    optimizer updates applied to it since construction: the weights      *)
(*    after k updates are the value k.                                     *)
(*  - model.state_dict() returns tensors that share storage with the       *)
(*    parameters; such a dictionary is the reference ParamRef and its      *)
(*    content is read through Deref.                                       *)
(*  - The data set is its shape (N, n0) and the per-feature minimum and    *)
(*    maximum (minD, maxD), with integer feature values.                   *)
(*  - An error value stored for a hidden size nred (pca_rmse, final_rmse)  *)
(*    is the record of the hidden size it was computed for.                *)
(***************************************************************************)
EXTENDS Integers, Sequences, FiniteSets, TLC

VARIABLES
    \* ---- the script (module level) ----
    pc,           \* position of the script
    N,            \* number of samples              (line 97)
    n0,           \* number of features             (line 97)
    minD,         \* per-feature minimum            (line 111)
    maxD,         \* per-feature maximum            (line 112)
    X,            \* prescaled data, or None        (line 120)
    pca_model,    \* fitted PCA, or None            (line 125)
    i,            \* sweep index, 1-based           (line 242)
    model,        \* hidden_dim of the live model, or None (line 250)
    PCAErr,       \* list of PCA errors             (line 238)
    AEErrs,       \* list of autoencoder errors     (line 239)
    saves,        \* every dictionary written to SavFilNam, in order (line 310)
    figure,       \* whether the combined figure was written (line 376)
    \* ---- train_sffn (locals) ----
    tpc,          \* "idle", "loop" (inside the two for loops), "done" (returned)
    nrows,        \* rows of Xrest
    batch_size,
    max_iters,
    tol,
    epoch,        \* value of the outer loop variable
    batch,        \* batches already consumed in the current epoch
    num_iter,
    best_loss,
    best_state,
    loss_values,
    W,            \* the parameter tensor (number of in-place updates)
    W_at_best     \* history: W at the moment best_state was taken

scriptVars == <<pc, N, n0, minD, maxD, X, pca_model, i, model, PCAErr, AEErrs,
                saves, figure>>
trainVars  == <<tpc, nrows, batch_size, max_iters, tol, epoch, batch, num_iter,
                best_loss, best_state, loss_values, W, W_at_best>>
vars       == <<scriptVars, trainVars>>

----------------------------------------------------------------------------
(* Bounds of the model *)

MaxRows      == 3    \* rows of the data set given to train_sffn alone
MaxBatchSize == 2
MaxItersArg  == 4    \* max_iters given to train_sffn alone
MaxLoss      == 2    \* loss values are 0..MaxLoss
MaxTol       == 2    \* tol is 0..MaxTol, in the unit of the loss values

(* Program constants *)

EpochCap == 10000    \* for epoch in range(10000)

None     == "None"
Inf      == -1       \* float('inf'): above every loss value
ParamRef == "model.W"

----------------------------------------------------------------------------
(* train_sffn *)

\* cur_loss < best_loss, with best_loss possibly float('inf')
LossLess(a, b) == a # Inf /\ (b = Inf \/ a < b)

\* number of batches a DataLoader yields per epoch (drop_last = False)
NumBatches(rows, bs) == (rows + bs - 1) \div bs

\* model.state_dict(): the tensors of the dictionary share the parameters' storage
StateDict == ParamRef

\* the weights a state dictionary holds when it is read
Deref(sd) == IF sd = ParamRef THEN W ELSE None

\* line 218 with the comparison turned around
IsNewBest_Reversed(cur_loss, best) == LossLess(best, cur_loss)

\* line 218: if cur_loss < best_loss
IsNewBest(cur_loss, best) == LossLess(cur_loss, best)

\* line 223 with the cap tested one step late (num_iter > max_iters)
InnerBreak_OffByOne(best, iters, cap, t) == LossLess(best, t) \/ iters > cap

\* line 223: the break of the inner loop
InnerBreak(best, iters, cap, t) == LossLess(best, t) \/ iters >= cap

\* line 226 testing the tolerance only
OuterBreak_TolOnly(best, iters, cap, t) == LossLess(best, t)

\* line 226: the break of the outer loop
OuterBreak(best, iters, cap, t) == LossLess(best, t) \/ iters >= cap

\* lines 182-200: the state of train_sffn on entry to the loops
TrainEnter(rows, bs, cap, t) ==
    /\ nrows' = rows
    /\ batch_size' = bs
    /\ max_iters' = cap
    /\ tol' = t
    /\ best_loss' = Inf
    /\ best_state' = None
    /\ W_at_best' = None
    /\ loss_values' = << >>
    /\ num_iter' = 0
    /\ epoch' = 0
    /\ batch' = 0
    /\ tpc' = IF rows > 0 THEN "loop" ELSE "done"

\* lines 204-227: one mini-batch step, and the loop control that follows it
TrainStep(cur_loss) ==
    /\ tpc = "loop"
    /\ num_iter' = num_iter + 1
    /\ W' = W + 1                                      \* optimizer.step()
    /\ loss_values' = Append(loss_values, cur_loss)
    /\ IF IsNewBest(cur_loss, best_loss)
         THEN /\ best_loss' = cur_loss
              /\ best_state' = StateDict
              /\ W_at_best' = W'
         ELSE UNCHANGED <<best_loss, best_state, W_at_best>>
    /\ LET inner == InnerBreak(best_loss', num_iter', max_iters, tol)
           last  == batch + 1 >= NumBatches(nrows, batch_size)
           outer == OuterBreak(best_loss', num_iter', max_iters, tol)
       IN  IF ~inner /\ ~last
             THEN /\ batch' = batch + 1
                  /\ UNCHANGED <<epoch, tpc>>
             ELSE \* the inner loop is left: line 226
                  IF outer
                    THEN /\ tpc' = "done"
                         /\ UNCHANGED <<epoch, batch>>
                    ELSE /\ epoch' = epoch + 1
                         /\ batch' = 0
                         /\ tpc' = IF epoch + 1 < EpochCap THEN "loop" ELSE "done"
    /\ UNCHANGED <<nrows, batch_size, max_iters, tol>>

----------------------------------------------------------------------------
(* train_sffn called on its own, with arguments from bounded sets *)

ScriptIdle ==
    /\ pc = "unit"
    /\ N = 0 /\ n0 = 0 /\ minD = << >> /\ maxD = << >>
    /\ X = None /\ pca_model = None /\ i = 0 /\ model = None
    /\ PCAErr = << >> /\ AEErrs = << >> /\ saves = << >> /\ figure = FALSE

Init ==
    /\ ScriptIdle
    /\ tpc = "loop"
    /\ nrows \in 1..MaxRows
    /\ batch_size \in 1..MaxBatchSize
    /\ max_iters \in 1..MaxItersArg
    /\ tol \in 0..MaxTol
    /\ best_loss = Inf /\ best_state = None /\ W_at_best = None
    /\ loss_values = << >> /\ num_iter = 0 /\ epoch = 0 /\ batch = 0
    /\ W = 0

Step ==
    /\ \E cur_loss \in 0..MaxLoss : TrainStep(cur_loss)
    /\ UNCHANGED scriptVars

Next == Step

Spec == Init /\ [][Next]_vars

----------------------------------------------------------------------------
(* The script: data, prescaling, PCA, the sweep over hidden sizes, the plot *)

MaxN0 == 4           \* the data sets of the model have 1..MaxN0 features

WineN         == 178     \* load_wine(): 178 samples ("178x13")
MxIts         == 100000  \* the run banner: "MxIts = 100000"
MainMaxIters  == 5000    \* max_iters=5000 in the call of train_sffn
MainBatchSize == 64      \* batch_size=64 in the call of train_sffn
MainTol       == 1       \* tol=1e-9 in the call; the loss unit of the script is 1e-9

\* feature values of the modelled data sets
FeatureValues == {0, 1}
\* losses of the script's training steps: below tol (0) and not below tol (1)
MainLosses == {0, 1}

\* abs(d) < np.sqrt(np.finfo(float).eps), for an integer difference d
BelowSqrtEps(d) == (IF d < 0 THEN -d ELSE d) < 1

\* line 113 with np.all in place of np.any
HasConstant_All(lo, hi) == \A j \in DOMAIN lo : BelowSqrtEps(hi[j] - lo[j])

\* line 113: np.any(np.abs(maxD - minD) < sqrt(eps))
HasConstant(lo, hi) == \E j \in DOMAIN lo : BelowSqrtEps(hi[j] - lo[j])

\* lines 103-106: list(range(nredstart, nredfin + 1, nredstep))
HidDims(n) ==
    LET nredstart == 1
        nredfin   == ((6 * n) \div 10) + 1
    IN  [k \in 1..(IF nredfin >= nredstart THEN nredfin - nredstart + 1 ELSE 0)
            |-> nredstart + (k - 1)]

\* lines 292, 297 with the new error put in front of the list
AppendErr_Front(list, nred) == <<[nred |-> nred]>> \o list

\* lines 292, 297: list.append of the error computed for hidden size nred
AppendErr(list, nred) == Append(list, [nred |-> nred])

\* lines 302-309: results_dict
ResultsDict(nred, pErr, aErr) ==
    [DataName |-> "Wine", N |-> N, n0 |-> n0, nred |-> nred,
     PCAErr |-> pErr, AEErrs |-> aErr]

\* lines 111-120: the constant-variable check and the prescaling
Prescale ==
    /\ pc = "start"
    /\ IF HasConstant(minD, maxD)
         THEN /\ pc' = "exited"                        \* sys.exit()
              /\ UNCHANGED X
         ELSE /\ pc' = "prescaled"
              /\ X' = [rows |-> N, cols |-> n0]
    /\ UNCHANGED <<N, n0, minD, maxD, pca_model, i, model, PCAErr, AEErrs,
                   saves, figure>>
    /\ UNCHANGED trainVars

\* lines 125-127 and 238-242: PCA, the empty result lists, the start of the sweep
FitPCA ==
    /\ pc = "prescaled"
    /\ pca_model' = [n_components |-> n0]
    /\ PCAErr' = << >>
    /\ AEErrs' = << >>
    /\ i' = 1
    /\ pc' = IF Len(HidDims(n0)) >= 1 THEN "sweep" ELSE "plot"
    /\ UNCHANGED <<N, n0, minD, maxD, X, model, saves, figure>>
    /\ UNCHANGED trainVars

\* lines 243-267: a fresh model for HidDims[i-1], and the call of train_sffn
SweepBegin ==
    /\ pc = "sweep"
    /\ tpc = "idle"
    /\ model' = HidDims(n0)[i]
    /\ W' = 0                                          \* w_init
    /\ TrainEnter(X.rows, MainBatchSize, MainMaxIters, MainTol)
    /\ UNCHANGED <<pc, N, n0, minD, maxD, X, pca_model, i, PCAErr, AEErrs,
                   saves, figure>>

\* lines 204-227 inside the call made by the sweep
SweepTrainStep ==
    /\ pc = "sweep"
    /\ \E cur_loss \in MainLosses : TrainStep(cur_loss)
    /\ UNCHANGED scriptVars

\* lines 270-333: load the returned state, store the errors, save, report
SweepFinish ==
    /\ pc = "sweep"
    /\ tpc = "done"
    /\ IF best_state = None
         THEN \* load_state_dict(None) raises
              /\ pc' = "error"
              /\ UNCHANGED <<W, AEErrs, PCAErr, saves, i>>
         ELSE /\ W' = Deref(best_state)                \* load_state_dict
              /\ AEErrs' = AppendErr(AEErrs, model)
              /\ PCAErr' = AppendErr(PCAErr, HidDims(n0)[i])
              /\ saves' = Append(saves,
                                 ResultsDict(HidDims(n0)[i], PCAErr', AEErrs'))
              /\ i' = i + 1
              /\ pc' = IF i + 1 <= Len(HidDims(n0)) THEN "sweep" ELSE "plot"
    /\ tpc' = "idle"
    /\ UNCHANGED <<N, n0, minD, maxD, X, pca_model, model, figure>>
    /\ UNCHANGED <<nrows, batch_size, max_iters, tol, epoch, batch, num_iter,
                   best_loss, best_state, loss_values, W_at_best>>

\* lines 354-377: the combined plot of both error lists against HidDims
CombinedPlot ==
    /\ pc = "plot"
    /\ IF Len(PCAErr) = Len(HidDims(n0)) /\ Len(AEErrs) = Len(HidDims(n0))
         THEN /\ figure' = TRUE
              /\ pc' = "finished"
         ELSE \* plt.plot raises on x and y of different lengths
              /\ pc' = "error"
              /\ UNCHANGED figure
    /\ UNCHANGED <<N, n0, minD, maxD, X, pca_model, i, model, PCAErr, AEErrs,
                   saves>>
    /\ UNCHANGED trainVars

TrainIdle ==
    /\ tpc = "idle"
    /\ nrows = 0 /\ batch_size = 0 /\ max_iters = 0 /\ tol = 0
    /\ best_loss = Inf /\ best_state = None /\ W_at_best = None
    /\ loss_values = << >> /\ num_iter = 0 /\ epoch = 0 /\ batch = 0
    /\ W = 0

InitMain ==
    /\ pc = "start"
    /\ N = WineN
    /\ n0 \in 1..MaxN0
    /\ minD \in [1..n0 -> FeatureValues]
    /\ maxD \in [1..n0 -> FeatureValues]
    /\ \A j \in 1..n0 : minD[j] <= maxD[j]
    /\ X = None /\ pca_model = None /\ i = 0 /\ model = None
    /\ PCAErr = << >> /\ AEErrs = << >> /\ saves = << >> /\ figure = FALSE
    /\ TrainIdle

NextMain ==
    \/ Prescale
    \/ FitPCA
    \/ SweepBegin
    \/ SweepTrainStep
    \/ SweepFinish
    \/ CombinedPlot

SpecMain == InitMain /\ [][NextMain]_vars

----------------------------------------------------------------------------
(* train_sffn called on its own, on runs long enough to exhaust the epochs. *)
(* The loss of a step is below tol (0) or not (1) once tol is 1; the short  *)
(* runs take every tol, the long runs tol = 1.                              *)

CapLosses == {0, 1}

\* a max_iters that one batch per epoch cannot reach within the epoch cap
LongIters == EpochCap + 1

InitCap ==
    /\ ScriptIdle
    /\ tpc = "loop"
    /\ \/ /\ nrows \in 1..MaxRows
          /\ batch_size \in 1..MaxBatchSize
          /\ max_iters \in 1..MaxItersArg
          /\ tol \in 0..MaxTol
       \/ /\ nrows \in 1..2
          /\ batch_size = 1
          /\ max_iters = LongIters
          /\ tol = 1
    /\ best_loss = Inf /\ best_state = None /\ W_at_best = None
    /\ loss_values = << >> /\ num_iter = 0 /\ epoch = 0 /\ batch = 0
    /\ W = 0

CapStep ==
    /\ \E cur_loss \in CapLosses : TrainStep(cur_loss)
    /\ UNCHANGED scriptVars

NextCap == CapStep

\* the loop body is straight-line code: a step that can run does run
SpecCap == InitCap /\ [][NextCap]_vars /\ WF_vars(NextCap)

----------------------------------------------------------------------------
(* Claims *)

\* the stopping condition of train_sffn as the claims state it
StopCond == (best_loss # Inf /\ best_loss < tol) \/ num_iter >= max_iters

\* the smallest element of a non-empty list of loss values
MinOf(list) == CHOOSE m \in {list[k] : k \in DOMAIN list} :
                   \A k \in DOMAIN list : m <= list[k]

\* C1: train_sffn always terminates, and the number of mini-batch steps is
\* bounded: num_iter <= max_iters and num_iter <= 10000 * (batches per epoch),
\* for every non-empty data set, batch_size >= 1, max_iters >= 1 and loss sequence.
C1_TerminatesBounded ==
    /\ <>(tpc = "done")
    /\ [](/\ num_iter <= max_iters
          /\ num_iter <= 10000 * NumBatches(nrows, batch_size))

\* C1 witness: a run of more than one epoch that returned at the iteration cap,
\* never below tol
C1_Witness ==
    /\ tpc = "done"
    /\ num_iter = max_iters
    /\ epoch >= 1
    /\ best_loss # Inf
    /\ ~(best_loss < tol)

\* C2: train_sffn stops at exactly the first step after which
\* (best_loss < tol or num_iter >= max_iters) holds: once the condition holds no
\* further optimizer step is made (the weights, the step count and the loss list
\* stay as they are), and train_sffn returns only when the condition holds or
\* the 10000 epochs are exhausted.
C2_StopsAtFirst ==
    [][ /\ StopCond => /\ W' = W
                       /\ num_iter' = num_iter
                       /\ loss_values' = loss_values
                       /\ tpc = "done"
        /\ tpc' = "done" => (StopCond' \/ epoch' >= 10000) ]_vars

\* C2 witness: a run of several epochs stopped by the tolerance in the middle
\* of an epoch, before max_iters
C2_Witness ==
    /\ tpc = "done"
    /\ best_loss < tol
    /\ num_iter < max_iters
    /\ epoch >= 1
    /\ batch + 1 < NumBatches(nrows, batch_size)

\* C3: the best_model_state returned by train_sffn holds the weights the model
\* had at the step where best_loss was recorded, however many optimizer steps
\* followed that step.
C3_BestStateIsBest ==
    (tpc = "done" /\ best_state # None) => Deref(best_state) = W_at_best

\* C4: after every mini-batch step, loss_values has num_iter entries and
\* best_loss is the minimum of them; best_loss never increases.
C4_BestLossIsMin ==
    /\ [](/\ Len(loss_values) = num_iter
          /\ num_iter >= 1 => best_loss = MinOf(loss_values)
          /\ num_iter = 0 => best_loss = Inf)
    /\ [][ best_loss # Inf => (best_loss' # Inf /\ best_loss' <= best_loss) ]_vars

\* C4 witness: a returned run whose lowest loss is neither the first nor the
\* last of the list
C4_Witness ==
    /\ tpc = "done"
    /\ num_iter >= 3
    /\ best_loss < loss_values[1]
    /\ best_loss < loss_values[num_iter]

\* C5: the sweep handles every hidden size of HidDims once, in ascending order,
\* and saves after each: the i-th saved dictionary has nred = HidDims[i-1] and
\* PCAErr and AEErrs of length i, entry k belonging to HidDims[k]; after the
\* sweep both lists have length len(HidDims).
C5_SweepSaves ==
    /\ \A s \in DOMAIN saves :
          /\ s <= Len(HidDims(n0))
          /\ saves[s].nred = HidDims(n0)[s]
          /\ Len(saves[s].PCAErr) = s
          /\ Len(saves[s].AEErrs) = s
          /\ \A k \in 1..s : /\ saves[s].PCAErr[k].nred = HidDims(n0)[k]
                             /\ saves[s].AEErrs[k].nred = HidDims(n0)[k]
    /\ \A k \in 1..(Len(HidDims(n0)) - 1) : HidDims(n0)[k] < HidDims(n0)[k + 1]
    /\ pc \in {"plot", "finished"} =>
          /\ Len(saves) = Len(HidDims(n0))
          /\ Len(PCAErr) = Len(HidDims(n0))
          /\ Len(AEErrs) = Len(HidDims(n0))
    /\ pc = "sweep" => Len(saves) = i - 1
    /\ pc # "error"

\* C5 witness: a finished sweep over three hidden sizes
C5_Witness ==
    /\ pc = "finished"
    /\ figure
    /\ Len(saves) = 3
    /\ saves[3].nred = 3

\* C6: if any feature is constant, the script terminates before doing anything
\* else with the data: no prescaling, no PCA, no model, no training, no results
\* file, no figure.
C6_ConstantTerminates ==
    (\E j \in 1..n0 : maxD[j] - minD[j] < 1) =>
        /\ pc \in {"start", "exited"}
        /\ pc = "exited" => ~ENABLED NextMain
        /\ X = None
        /\ pca_model = None
        /\ model = None
        /\ tpc = "idle" /\ num_iter = 0 /\ W = 0
        /\ saves = << >>
        /\ figure = FALSE

\* C6 witness: the script has exited on data with one constant feature among
\* varying ones
C6_Witness ==
    /\ pc = "exited"
    /\ n0 >= 2
    /\ \E j \in 1..n0 : maxD[j] = minD[j]
    /\ \E j \in 1..n0 : maxD[j] # minD[j]

\* C8: as the run banner states, training of a hidden size runs with a maximum
\* of 100000 iterations (MxIts = 100000).
C8_BannerMaxIters ==
    (pc = "sweep" /\ tpc # "idle") => max_iters = MxIts

=============================================================================
